---- MODULE Spec2Model ----
(***************************************************************************)
(* Real-time narrative system: the Orchestrator (orchestrator.py), its     *)
(* Selector state (selector.py) and the PlaybackController IPC client      *)
(* (playback.py).                                                          *)
(*                                                                         *)
(* The specifications share the module's variables:                        *)
(*   Spec     the Orchestrator's threads: the caller's thread (thread 0)   *)
(*            and the poll threads start() creates (threads 1..MaxStarts). *)
(*            A pc value names the statement a thread executes next; a     *)
(*            blocking call (IPC round trip, collaborator call) is one     *)
(*            step whose outcome the environment chooses.                  *)
(*   SpecHist the same threads, with the histories of the running fill     *)
(*            cycle and of the last poll kept.                             *)
(*   SpecIpc  PlaybackController._send_command on the socket, byte level.  *)
(*   SpecState, SpecPlayed   sequences of calls of the narrative state's   *)
(*            own operations.                                              *)
(*   SpecEstimate   get_queue_duration applied to a status.                *)
(*   SpecStatus     get_status applied to the engine's answers.            *)
(*   SpecSample     _smart_sample applied to a pool and a number n.        *)
(*   SpecCandidates select() up to the prompt: the candidate list.         *)
(*   SpecFill       fill cycles of one thread, each a single step.         *)
(*   SpecProcess    sequences of process_feedback calls.                   *)
(*   SpecEngine     sequences of start_mpv, connect and stop_mpv calls.    *)
(* SpecLive and SpecIpcLive add the fairness of a thread that keeps        *)
(* running once it is runnable.                                            *)
(***************************************************************************)
EXTENDS Integers, Sequences, FiniteSets, TLC

\* ------------------------------------------------------------- bounds
MaxStarts == 2      \* start() calls made by the caller (poll threads created)
MaxFeedback == 2    \* add_feedback() calls made by the caller
MaxSel == 2         \* length of the collaborator's selection list
MaxQueue == 2       \* loadfile commands the engine acknowledges
MaxPlayed == 2      \* reports of a queued clip as the current one
MaxEvents == 4      \* feedback calls, acknowledged loads and such reports, together
MaxFills == 1       \* non-empty collaborator responses
MaxCmds == 2        \* _send_command calls made (SpecIpc)
MaxConns == 2       \* connections the engine accepts (SpecIpc)
MaxEmits == 1       \* lines or bytes the engine writes unasked (SpecIpc)
MaxRecorded == 16   \* add_played calls made (SpecPlayed)
MaxTexts == 11      \* NarrativeState.add_feedback calls made (SpecState)
MaxSeconds == 9     \* largest position and duration of a status (SpecEstimate)
MaxPlaylist == 3    \* longest playlist of a status (SpecEstimate)
MaxSpawns == 2      \* engine processes start_mpv spawns (SpecEngine)
MaxProcessed == 3   \* process_feedback calls made (SpecProcess)
MaxPer == 2         \* clips of one motion_intensity in a pool (SpecSample)
MaxCap == 6         \* largest n handed to _smart_sample (SpecSample)
MaxAnswer == 4      \* selections in one collaborator answer (SpecFill)
MaxCycles == 2      \* fill cycles that reach the end of their loop (SpecFill)

\* ---------------------------------------------------- program constants
RecentCap == 10     \* NarrativeState.add_played keeps the last 10
MoodCap == 15       \* NarrativeState.add_played keeps the last 15 moods
FeedbackCap == 10   \* NarrativeState.add_feedback keeps the last 10

\* The manifest's filenames, and a filename the manifest does not know.
Clips == {"A", "B"}
Unknown == "X"
NoFile == "none"

Caller == 0
Loops == 1..MaxStarts
Threads == 0..MaxStarts
NoThread == -1

\* ------------------------------------------------------------ helpers
Range(s) == {s[i] : i \in 1..Len(s)}

KeepLast(s, n) == IF Len(s) <= n THEN s ELSE SubSeq(s, Len(s) - n + 1, Len(s))

\* list.remove(x): the first occurrence only.
RemoveFirst(s, x) ==
    LET i == CHOOSE k \in 1..Len(s) : s[k] = x /\ \A j \in 1..(k - 1) : s[j] # x
    IN  SubSeq(s, 1, i - 1) \o SubSeq(s, i + 1, Len(s))

SeqsUpTo(S, n) == UNION {[1..k -> S] : k \in 0..n}

Count(s, x) == Cardinality({i \in 1..Len(s) : s[i] = x})

NoDuplicates(s) == \A i, j \in 1..Len(s) : s[i] = s[j] => i = j

StrictlyIncreasing(s) == \A i, j \in 1..Len(s) : i < j => s[i] < s[j]

VARIABLES
    running,          \* Orchestrator.running
    queued,           \* Orchestrator.queued_filenames (a list)
    feedbackQueue,    \* Orchestrator._feedback_queue
    lock,             \* owner of Orchestrator._lock, or NoThread
    bufferThread,     \* Orchestrator._buffer_thread: the newest poll thread, 0 = None
    pc,               \* next statement of each thread
    sels,             \* _fill_buffer's local `selections` still to enqueue, per thread
    fb,               \* _buffer_loop's local feedback_to_process, per thread
    cur,              \* _mark_current_as_played's argument, per thread
    recentlyPlayed,   \* selector.state.recently_played (filenames)
    feedbackHistory,  \* selector.state.feedback_history (texts)
    clipsPlayed,      \* Orchestrator.clips_played
    selectionsMade,   \* Orchestrator.selections_made
    nFeedback,        \* number of add_feedback() calls made: the k-th text is k
    moodTrajectory,   \* selector.state.mood_trajectory
    hist,             \* whether this behaviour keeps the four per-cycle histories below
    lastSeen,         \* history: status.filename of the poll iteration that ended last
    seedFailed,       \* history: start()'s seed _fill_buffer returned without selections
    want,             \* history, per thread: manifest filenames in the collaborator's answer
    dropped,          \* history, per thread: other filenames in that answer
    calls,            \* history, per thread: add_to_playlist calls of the running fill cycle
    loaded            \* history: loadfile commands the engine answered with success

orchVars == <<running, queued, feedbackQueue, lock, bufferThread, pc, sels, fb, cur,
              recentlyPlayed, feedbackHistory, clipsPlayed, selectionsMade, nFeedback,
              moodTrajectory, hist, lastSeen, seedFailed, want, dropped, calls, loaded>>

VARIABLES
    sock,             \* PlaybackController._socket: a connection, 0 = None
    nConns,           \* connections opened so far
    wire,             \* per connection: bytes the engine wrote, not yet received
    reqs,             \* per connection: commands written, not yet answered
    closed,           \* per connection: the engine closed its end
    tpc,              \* per client thread: next statement of _send_command
    cmd,              \* per client thread: the command this call sends, 0 = none
    resp,             \* per client thread: the local `response`
    result,           \* per client thread: what the call returned or raised
    spin,             \* per client thread: parity of the empty chunks received
    nCmds,            \* commands issued so far: the n-th call sends command n
    sentBy,           \* the thread that issued each command
    nEmits            \* unasked writes of the engine so far

ipcVars == <<sock, nConns, wire, reqs, closed, tpc, cmd, resp, result, spin,
             nCmds, sentBy, nEmits>>

VARIABLES
    coherence,        \* selector.state.coherence_level, in tenths
    asked,            \* history: the level of the last set_coherence call
    playedLog,        \* history: every clip handed to add_played, in call order
    feedbackLog,      \* history: every text handed to NarrativeState.add_feedback
    status,           \* the PlaybackStatus and playlist length get_queue_duration reads
    estimate          \* what get_queue_duration returned, NoEstimate before the call

stateVars == <<coherence, asked, playedLog, feedbackLog>>

estVars == <<status, estimate>>

VARIABLES
    direction,        \* selector.state.direction
    current_queue,    \* selector.state.current_queue
    batch,            \* history, per poll thread: the texts its running iteration drained
    filled            \* history, per poll thread: its running iteration called _fill_buffer

ctxVars == <<direction, current_queue, batch, filled>>

VARIABLES
    taken,            \* history, per client thread: the bytes its call has received
    reads             \* history, per client thread: the recv calls that returned them

readVars == <<taken, reads>>

VARIABLES
    mpvProcess,       \* PlaybackController._mpv_process: a process, 0 = None
    engine,           \* per engine process: unborn, starting, listening or dead
    sockFile,         \* who created the file at socket_path: a process, NoOwner, Leftover
    ret               \* the last start_mpv, connect or stop_mpv call: how it returned

engVars == <<mpvProcess, engine, sockFile, ret>>

VARIABLES
    excludedNames,    \* select()'s argument exclude_filenames
    pool,             \* _smart_sample's argument clips: how many clips of each motion
    sampleCap,        \* _smart_sample's argument n
    picked,           \* _smart_sample's local result: how often it holds each clip
    phase             \* _smart_sample's position

sampleVars == <<pool, sampleCap, picked, phase, excludedNames>>

VARIABLES
    answers,          \* what the engine answers to each property query of get_status
    polled            \* the PlaybackStatus get_status returned, NotPolled before the call

pollVars == <<answers, polled>>

restVars == <<sampleVars, pollVars>>

vars == <<orchVars, ipcVars, stateVars, estVars, ctxVars, readVars, engVars, restVars>>

\* A step of the Orchestrator's threads leaves the byte-level client alone,
\* and the other way round; neither is a call of the narrative state's own
\* operations, of the buffer estimate, of the engine's start and stop, of the
\* sampler or of get_status.
OrchCtx == UNCHANGED <<ipcVars, stateVars, estVars, readVars, engVars, restVars>>
OrchOnly == OrchCtx /\ UNCHANGED ctxVars
IpcRead == UNCHANGED <<orchVars, stateVars, estVars, ctxVars, engVars, restVars>>
IpcOnly == IpcRead /\ UNCHANGED readVars

\* Orchestrator.__init__; `keep` says whether the behaviour keeps the
\* histories lastSeen, want, dropped and calls. No action reads them, so the
\* threads take the same steps either way.
InitOrchWith(keep) ==
    /\ hist = keep
    /\ running = FALSE
    /\ queued = <<>>
    /\ feedbackQueue = <<>>
    /\ lock = NoThread
    /\ bufferThread = 0
    /\ pc = [t \in Threads |-> IF t = Caller THEN "idle" ELSE "unborn"]
    /\ sels = [t \in Threads |-> <<>>]
    /\ fb = [t \in Threads |-> <<>>]
    /\ cur = [t \in Threads |-> NoFile]
    /\ recentlyPlayed = <<>>
    /\ feedbackHistory = <<>>
    /\ clipsPlayed = 0
    /\ selectionsMade = 0
    /\ nFeedback = 0
    /\ moodTrajectory = <<>>
    /\ lastSeen = NoFile
    /\ seedFailed = FALSE
    /\ want = [t \in Threads |-> 0]
    /\ dropped = [t \in Threads |-> 0]
    /\ calls = [t \in Threads |-> 0]
    /\ loaded = 0

\* What the environment has done so far: feedback texts handed in, loadfile
\* commands acknowledged, queued clips reported as current.
EnvEvents == nFeedback + loaded + clipsPlayed

InitOrch == InitOrchWith(FALSE)

\* A history variable takes its new value in a behaviour that keeps histories.
Kept(new, old) == IF hist THEN new ELSE old

Goto(t, label) == pc' = [pc EXCEPT ![t] = label]

\* Where a thread continues when _fill_buffer returns: start() goes on to play(),
\* _buffer_loop goes on to the feedback drain.
AfterFill(t) == IF t = Caller THEN "spawn" ELSE "drain_lock"

\* OnRaise with the try/except missing: the exception ends the poll thread.
OnRaiseUncaught(t) == IF t = Caller THEN "idle" ELSE "dead"

\* Where an exception raised in thread t lands: _buffer_loop's except clause;
\* in the caller's thread nothing catches it and the call is abandoned.
OnRaise(t) == IF t = Caller THEN "idle" ELSE "except"

\* The `with self._lock:` block stretched over the statements after it.
StillHeld(t) == t

\* The owner of the lock once thread t has left its `with self._lock:` block.
Released(t) == NoThread

\* ------------------------------------------------- NarrativeState
\* add_played and add_feedback with the `[-10:]` slice left out.
add_played_uncapped(played, clip) == Append(played, clip)
add_feedback_uncapped(history, text) == Append(history, text)

\* NarrativeState.add_played
add_played(played, clip) == KeepLast(Append(played, clip), RecentCap)

\* NarrativeState.add_feedback
add_feedback_state(history, text) == KeepLast(Append(history, text), FeedbackCap)

\* Clip.mood of the manifest's clips.
Mood(clip) == IF clip = "A" THEN "calm" ELSE "tense"

\* NarrativeState.add_played, the mood trajectory.
add_mood(moods, clip) == KeepLast(Append(moods, Mood(clip)), MoodCap)

\* Selector.mark_played: only a clip the manifest knows is recorded.
mark_played(played, filename) ==
    IF filename \in Clips THEN add_played(played, filename) ELSE played

mark_played_moods(moods, filename) ==
    IF filename \in Clips THEN add_mood(moods, filename) ELSE moods

\* Selector.select with the exclusion left out.
AvailableAny(exclude) == Clips

\* Selector.select, up to the collaborator call: the available clips.
Available(exclude) == {c \in Clips : c \notin exclude}

\* Selector.select with the manifest lookup left out.
ValidSelectionsUnchecked(answer) == answer

\* Selector.select, after the collaborator call: selections the manifest knows.
ValidSelections(answer) == SelectSeq(answer, LAMBDA f : f \in Clips)

\* How many entries of a collaborator answer manifest.get_clip finds, and how
\* many it does not.
KnownIn(answer) == Cardinality({i \in DOMAIN answer : answer[i] \in Clips})
UnknownIn(answer) == Len(answer) - KnownIn(answer)

\* The replies to a loadfile command: success, an error reply, no response.
Replies == {"success", "error", "none"}

\* add_to_playlist with `result is not None` as its whole test.
add_to_playlist_any(reply) == reply # "none"

\* PlaybackController.add_to_playlist:
\* result is not None and result.get("error") == "success".
add_to_playlist(reply) == reply = "success"

\* ------------------------------------------------- Selector.process_feedback
\* direction_keywords, in the order the dict is written.
Keywords ==
    <<"darker", "lighter", "faster", "slower", "abstract", "narrative",
      "emotional", "violent", "peaceful", "weird", "funny">>

Directions ==
    <<"exploring darker themes", "moving toward lighter, brighter content",
      "increasing energy and pace", "slowing down, contemplative",
      "embracing abstraction and surrealism", "building toward clearer narrative",
      "focusing on emotional resonance", "exploring conflict and tension",
      "seeking calm and serenity", "leaning into the strange and surreal",
      "looking for humor and levity">>

InitialDirection == "open exploration"

\* The words feedback texts are made of: one without a keyword, one keyword in
\* capitals, one keyword as it is, one keyword inside a longer word.
Vocabulary == <<"hello", "Darker", "funny", "weirdly">>

NumTexts == Len(Vocabulary) + Len(Vocabulary) * Len(Vocabulary)

\* A feedback text is a number: texts 1..4 are the words of the vocabulary,
\* the later ones every two words in a row.
Content(text) ==
    IF text <= Len(Vocabulary)
    THEN <<Vocabulary[text]>>
    ELSE <<Vocabulary[((text - Len(Vocabulary) - 1) \div Len(Vocabulary)) + 1],
           Vocabulary[((text - Len(Vocabulary) - 1) % Len(Vocabulary)) + 1]>>

\* str.lower() of a word
LowerWord(word) == IF word = "Darker" THEN "darker" ELSE word

\* `keyword in word`: the substring test, on one word.
InWord(keyword, word) == word = keyword \/ (word = "weirdly" /\ keyword = "weird")

\* `keyword in feedback_lower`
Occurs(keyword, text) ==
    \E i \in DOMAIN Content(text) : InWord(keyword, LowerWord(Content(text)[i]))

\* The for loop of process_feedback with the `break` left out: the last
\* keyword of the table that occurs wins.
process_direction_nobreak(dir, text) ==
    LET hits == {i \in DOMAIN Keywords : Occurs(Keywords[i], text)}
    IN  IF hits = {} THEN dir ELSE Directions[CHOOSE i \in hits : \A j \in hits : j <= i]

\* The for loop of process_feedback, from table entry i on.
RECURSIVE ScanKeywords(_, _, _)
ScanKeywords(i, dir, text) ==
    IF i > Len(Keywords) THEN dir
    ELSE IF Occurs(Keywords[i], text) THEN Directions[i]
    ELSE ScanKeywords(i + 1, dir, text)

\* Selector.process_feedback, the direction it leaves.
process_direction(dir, text) == ScanKeywords(1, dir, text)

\* ------------------------------------------------- NarrativeState.to_context
ContextWindow == 5

to_context ==
    [recently_played |-> KeepLast(recentlyPlayed, ContextWindow),
     recent_feedback |-> KeepLast(feedbackHistory, ContextWindow),
     mood_trajectory |-> KeepLast(moodTrajectory, ContextWindow),
     direction |-> direction,
     coherence_level |-> coherence,
     queued_count |-> Len(current_queue)]

InitCtx ==
    /\ direction = InitialDirection
    /\ current_queue = <<>>
    /\ batch = [t \in Threads |-> {}]
    /\ filled = [t \in Threads |-> FALSE]

\* The poll loop with a fill cycle after the feedback of the same iteration.
AfterFeedbackFill(t) == "select"

\* Where _buffer_loop goes on after the feedback it drained: get_status().
AfterFeedback(t) == "status"

\* --------------------------------------------- Orchestrator._fill_buffer
\* exclude, selector.select(...), the early returns.
FillSelect(t) ==
    /\ pc[t] = "select"
    /\ LET exclude == Range(recentlyPlayed) \cup Range(queued)
           NoSelections ==
               \* "error" in result, or `not selections`: return
               /\ Goto(t, AfterFill(t))
               /\ seedFailed' = IF t = Caller THEN TRUE ELSE seedFailed
               /\ UNCHANGED <<sels, want, dropped>>
       IN  IF Available(exclude) = {}
           THEN \* {"error": "No available clips"}
                NoSelections
           ELSE \/ \* the collaborator call raises
                   /\ Goto(t, OnRaise(t))
                   /\ UNCHANGED <<sels, want, dropped, seedFailed>>
                \/ \E answer \in SeqsUpTo(Clips \cup {Unknown}, MaxSel) :
                      /\ answer # <<>> => selectionsMade < MaxFills
                      /\ LET valid == ValidSelections(answer)
                         IN  IF valid = <<>>
                             THEN NoSelections
                             ELSE /\ Goto(t, "enqueue")
                                  /\ sels' = [sels EXCEPT ![t] = valid]
                                  /\ want' = Kept([want EXCEPT ![t] = KnownIn(answer)], want)
                                  /\ dropped' = Kept([dropped EXCEPT ![t] = UnknownIn(answer)], dropped)
                                  /\ UNCHANGED seedFailed
    /\ filled' = Kept([filled EXCEPT ![t] = t \in Loops], filled)
    /\ UNCHANGED <<running, queued, feedbackQueue, lock, bufferThread, fb, cur,
                   recentlyPlayed, feedbackHistory, clipsPlayed, selectionsMade, nFeedback>>
    /\ UNCHANGED <<moodTrajectory, hist, lastSeen, calls, loaded>>
    /\ UNCHANGED <<direction, current_queue, batch>>
    /\ OrchCtx

\* A rejected add_to_playlist taking the filename back out of the list.
enqueued_or_dropped(names, filename, reply) ==
    IF add_to_playlist(reply)
    THEN Append(names, filename)
    ELSE SelectSeq(names, LAMBDA f : f # filename)

\* `if self.playback.add_to_playlist(filepath): self.queued_filenames.append(
\* filename)`: a rejected command leaves the list as it was.
enqueued(names, filename, reply) ==
    IF add_to_playlist(reply) THEN Append(names, filename) ELSE names

\* One pass of `for sel in selections`, and after the last one selections_made += 1.
FillEnqueue(t) ==
    /\ pc[t] = "enqueue"
    /\ sels[t] # <<>>
    /\ LET filename == Head(sels[t])
           rest == Tail(sels[t])
           last == rest = <<>>
           CycleOver ==
               /\ want' = [want EXCEPT ![t] = 0]
               /\ dropped' = [dropped EXCEPT ![t] = 0]
               /\ calls' = [calls EXCEPT ![t] = 0]
       IN  \/ \* add_to_playlist raises
              /\ Goto(t, OnRaise(t))
              /\ sels' = [sels EXCEPT ![t] = <<>>]
              /\ CycleOver
              /\ UNCHANGED <<queued, selectionsMade, loaded>>
           \/ \E reply \in Replies :
                 /\ reply = "success" => (Len(queued) < MaxQueue /\ EnvEvents < MaxEvents)
                 /\ loaded' = IF reply = "success" THEN loaded + 1 ELSE loaded
                 /\ queued' = enqueued(queued, filename, reply)
                 /\ sels' = [sels EXCEPT ![t] = rest]
                 /\ selectionsMade' = IF last THEN selectionsMade + 1 ELSE selectionsMade
                 /\ IF last
                    THEN CycleOver
                    ELSE /\ calls' = Kept([calls EXCEPT ![t] = @ + 1], calls)
                         /\ UNCHANGED <<want, dropped>>
                 /\ Goto(t, IF last THEN AfterFill(t) ELSE "enqueue")
    /\ UNCHANGED <<running, feedbackQueue, lock, bufferThread, fb, cur,
                   recentlyPlayed, feedbackHistory, clipsPlayed, nFeedback>>
    /\ UNCHANGED <<moodTrajectory, hist, lastSeen, seedFailed>>
    /\ OrchOnly

\* OrchestratorConfig.clips_per_selection
clips_per_selection == 3

\* `for sel in selections`: an add_to_playlist call for each selection, the
\* filename appended after each accepted one.
RECURSIVE add_all(_, _, _)
add_all(names, selections, replies) ==
    IF selections = <<>>
    THEN names
    ELSE add_all(enqueued(names, Head(selections), Head(replies)),
                 Tail(selections), Tail(replies))

\* _fill_buffer from its first to its last statement, run by the caller's
\* thread while no other thread runs: the exclusion list, select() with the
\* collaborator's answer, and the loop over the selections, which either
\* reaches its end or stops where add_to_playlist raises. A cycle that
\* returns early (no available clip, an error or no valid selection) changes
\* nothing.
FillBuffer ==
    /\ pc[Caller] = "idle"
    /\ selectionsMade < MaxCycles
    /\ LET exclude == Range(recentlyPlayed) \cup Range(queued)
       IN  /\ Available(exclude) # {}
           /\ \E answer \in SeqsUpTo(Clips \cup {Unknown}, MaxAnswer) :
                 LET valid == ValidSelections(answer)
                 IN  /\ valid # <<>>
                     /\ \E passes \in 0..Len(valid) :
                        \E replies \in [1..passes -> Replies] :
                           /\ queued' = add_all(queued, SubSeq(valid, 1, passes), replies)
                           /\ Len(queued') <= MaxAnswer * MaxCycles
                           /\ loaded' = loaded + (Len(queued') - Len(queued))
                           /\ selectionsMade' = IF passes = Len(valid)
                                                 THEN selectionsMade + 1
                                                 ELSE selectionsMade
    /\ UNCHANGED <<running, feedbackQueue, lock, bufferThread, pc, sels, fb, cur,
                   recentlyPlayed, feedbackHistory, clipsPlayed, nFeedback>>
    /\ UNCHANGED <<moodTrajectory, hist, lastSeen, seedFailed, want, dropped, calls>>
    /\ OrchOnly

\* ----------------------------------------------- Orchestrator._buffer_loop
\* `while self.running:` and the buffer query of the iteration that begins.
LoopBegin(t) ==
    /\ t \in Loops
    /\ pc[t] = "top"
    /\ IF ~running
       THEN Goto(t, "dead")
       ELSE \/ Goto(t, OnRaise(t))                  \* get_queue_duration raises
            \/ \E low \in BOOLEAN :
                  Goto(t, IF low THEN "select" ELSE "drain_lock")
    /\ UNCHANGED <<running, queued, feedbackQueue, lock, bufferThread, sels, fb, cur,
                   recentlyPlayed, feedbackHistory, clipsPlayed, selectionsMade, nFeedback>>
    /\ UNCHANGED <<moodTrajectory, hist, lastSeen, seedFailed, want, dropped, calls, loaded>>
    /\ OrchOnly

\* `with self._lock:` entered.
LoopDrainLock(t) ==
    /\ t \in Loops
    /\ pc[t] = "drain_lock"
    /\ lock = NoThread
    /\ lock' = t
    /\ Goto(t, "drain")
    /\ UNCHANGED <<running, queued, feedbackQueue, bufferThread, sels, fb, cur,
                   recentlyPlayed, feedbackHistory, clipsPlayed, selectionsMade, nFeedback>>
    /\ UNCHANGED <<moodTrajectory, hist, lastSeen, seedFailed, want, dropped, calls, loaded>>
    /\ OrchOnly

\* copy(), clear(), and the lock released.
LoopDrain(t) ==
    /\ t \in Loops
    /\ pc[t] = "drain"
    /\ fb' = [fb EXCEPT ![t] = feedbackQueue]
    /\ feedbackQueue' = <<>>
    /\ lock' = Released(t)
    /\ batch' = Kept([batch EXCEPT ![t] = Range(feedbackQueue)], batch)
    /\ Goto(t, IF feedbackQueue = <<>> THEN AfterFeedback(t) ELSE "process")
    /\ UNCHANGED <<running, queued, bufferThread, sels, cur,
                   recentlyPlayed, feedbackHistory, clipsPlayed, selectionsMade, nFeedback>>
    /\ UNCHANGED <<moodTrajectory, hist, lastSeen, seedFailed, want, dropped, calls, loaded>>
    /\ UNCHANGED <<direction, current_queue, filled>>
    /\ OrchCtx

\* One pass of `for feedback in feedback_to_process`.
LoopProcess(t) ==
    /\ t \in Loops
    /\ pc[t] = "process"
    /\ fb[t] # <<>>
    /\ feedbackHistory' = add_feedback_state(feedbackHistory, Head(fb[t]))
    /\ direction' = process_direction(direction, Head(fb[t]))
    /\ fb' = [fb EXCEPT ![t] = Tail(fb[t])]
    /\ Goto(t, IF Tail(fb[t]) = <<>> THEN AfterFeedback(t) ELSE "process")
    /\ UNCHANGED <<running, queued, feedbackQueue, lock, bufferThread, sels, cur,
                   recentlyPlayed, clipsPlayed, selectionsMade, nFeedback>>
    /\ UNCHANGED <<moodTrajectory, hist, lastSeen, seedFailed, want, dropped, calls, loaded>>
    /\ UNCHANGED <<current_queue, batch, filled>>
    /\ OrchCtx

\* The files the engine has loaded, one of which it can report as current:
\* those acknowledged and queued, and those reconciled since.
Loaded == Range(queued) \cup Range(recentlyPlayed)

\* get_status(), `if status.filename:` and the membership test of
\* _mark_current_as_played.
LoopStatus(t) ==
    /\ t \in Loops
    /\ pc[t] = "status"
    /\ \/ /\ Goto(t, OnRaise(t))                    \* get_status raises
          /\ UNCHANGED <<cur, lastSeen>>
       \/ \E filename \in Loaded \cup {NoFile} :
             /\ filename \in Range(queued) =>
                    (clipsPlayed < MaxPlayed /\ EnvEvents < MaxEvents)
             /\ IF filename # NoFile /\ filename \in Range(queued)
                THEN /\ cur' = [cur EXCEPT ![t] = filename]
                     /\ Goto(t, "mark")
                     /\ UNCHANGED lastSeen
                ELSE /\ UNCHANGED cur
                     /\ Goto(t, "top")
                     /\ lastSeen' = Kept(filename, lastSeen)
    /\ batch' = IF pc'[t] = "mark" THEN batch ELSE [batch EXCEPT ![t] = {}]
    /\ filled' = IF pc'[t] = "mark" THEN filled ELSE [filled EXCEPT ![t] = FALSE]
    /\ UNCHANGED <<running, queued, feedbackQueue, lock, bufferThread, sels, fb,
                   recentlyPlayed, feedbackHistory, clipsPlayed, selectionsMade, nFeedback>>
    /\ UNCHANGED <<moodTrajectory, hist, seedFailed, want, dropped, calls, loaded>>
    /\ UNCHANGED <<direction, current_queue>>
    /\ OrchCtx

\* The body of _mark_current_as_played's `if`.
LoopMark(t) ==
    /\ t \in Loops
    /\ pc[t] = "mark"
    /\ IF cur[t] \in Range(queued)
       THEN /\ queued' = RemoveFirst(queued, cur[t])
            /\ recentlyPlayed' = mark_played(recentlyPlayed, cur[t])
            /\ moodTrajectory' = mark_played_moods(moodTrajectory, cur[t])
            /\ clipsPlayed' = clipsPlayed + 1
            /\ Goto(t, "top")
       ELSE \* list.remove raises ValueError
            /\ Goto(t, OnRaise(t))
            /\ UNCHANGED <<queued, recentlyPlayed, moodTrajectory, clipsPlayed>>
    /\ cur' = [cur EXCEPT ![t] = NoFile]
    /\ lastSeen' = Kept(cur[t], lastSeen)
    /\ batch' = [batch EXCEPT ![t] = {}]
    /\ filled' = [filled EXCEPT ![t] = FALSE]
    /\ UNCHANGED <<running, feedbackQueue, lock, bufferThread, sels, fb,
                   feedbackHistory, selectionsMade, nFeedback>>
    /\ UNCHANGED <<hist, seedFailed, want, dropped, calls, loaded>>
    /\ UNCHANGED <<direction, current_queue>>
    /\ OrchCtx

\* `except Exception as e: print(...)`, then the sleep.
LoopExcept(t) ==
    /\ t \in Loops
    /\ pc[t] = "except"
    /\ Goto(t, "top")
    /\ filled' = [filled EXCEPT ![t] = FALSE]
    /\ UNCHANGED <<running, queued, feedbackQueue, lock, bufferThread, sels, fb, cur,
                   recentlyPlayed, feedbackHistory, clipsPlayed, selectionsMade, nFeedback>>
    /\ UNCHANGED <<moodTrajectory, hist, lastSeen, seedFailed, want, dropped, calls, loaded>>
    /\ UNCHANGED <<direction, current_queue, batch>>
    /\ OrchCtx

\* ------------------------------------------------------ the caller's thread
\* Orchestrator.start: start_mpv() and connect().
Start ==
    /\ pc[Caller] = "idle"
    /\ bufferThread < MaxStarts
    /\ \E ok \in BOOLEAN : Goto(Caller, IF ok THEN "select" ELSE "idle")
    /\ UNCHANGED <<running, queued, feedbackQueue, lock, bufferThread, sels, fb, cur,
                   recentlyPlayed, feedbackHistory, clipsPlayed, selectionsMade, nFeedback>>
    /\ UNCHANGED <<moodTrajectory, hist, lastSeen, seedFailed, want, dropped, calls, loaded>>
    /\ OrchOnly

\* Orchestrator.start: play(), running = True, the new thread started.
StartSpawn ==
    /\ pc[Caller] = "spawn"
    /\ \/ \* play() raises
          /\ Goto(Caller, "idle")
          /\ UNCHANGED <<running, bufferThread>>
       \/ /\ running' = TRUE
          /\ bufferThread' = bufferThread + 1
          /\ pc' = [pc EXCEPT ![Caller] = "idle", ![bufferThread + 1] = "top"]
    /\ seedFailed' = FALSE
    /\ UNCHANGED <<queued, feedbackQueue, lock, sels, fb, cur,
                   recentlyPlayed, feedbackHistory, clipsPlayed, selectionsMade, nFeedback>>
    /\ UNCHANGED <<moodTrajectory, hist, lastSeen, want, dropped, calls, loaded>>
    /\ OrchOnly

\* Orchestrator.stop: running = False.
Stop ==
    /\ pc[Caller] = "idle"
    /\ running' = FALSE
    /\ Goto(Caller, "join")
    /\ UNCHANGED <<queued, feedbackQueue, lock, bufferThread, sels, fb, cur,
                   recentlyPlayed, feedbackHistory, clipsPlayed, selectionsMade, nFeedback>>
    /\ UNCHANGED <<moodTrajectory, hist, lastSeen, seedFailed, want, dropped, calls, loaded>>
    /\ OrchOnly

\* Orchestrator.stop: join(timeout=2.0) returns, the thread ended or not, then
\* stop_mpv().
StopJoin ==
    /\ pc[Caller] = "join"
    /\ Goto(Caller, "idle")
    /\ UNCHANGED <<running, queued, feedbackQueue, lock, bufferThread, sels, fb, cur,
                   recentlyPlayed, feedbackHistory, clipsPlayed, selectionsMade, nFeedback>>
    /\ UNCHANGED <<moodTrajectory, hist, lastSeen, seedFailed, want, dropped, calls, loaded>>
    /\ OrchOnly

\* Orchestrator.add_feedback: `with self._lock:` entered.
AddFeedbackLock ==
    /\ pc[Caller] = "idle"
    /\ nFeedback < MaxFeedback
    /\ EnvEvents < MaxEvents
    /\ lock = NoThread
    /\ lock' = Caller
    /\ Goto(Caller, "append")
    /\ UNCHANGED <<running, queued, feedbackQueue, bufferThread, sels, fb, cur,
                   recentlyPlayed, feedbackHistory, clipsPlayed, selectionsMade, nFeedback>>
    /\ UNCHANGED <<moodTrajectory, hist, lastSeen, seedFailed, want, dropped, calls, loaded>>
    /\ OrchOnly

\* add_feedback handing the text to the narrative state itself.
history_recorded(history, text) == add_feedback_state(history, text)

\* The narrative state's feedback history across Orchestrator.add_feedback:
\* the call appends to the inbox and touches nothing else.
history_on_add(history, text) == history

\* Orchestrator.add_feedback: the append, and the lock released.
AddFeedback ==
    /\ pc[Caller] = "append"
    /\ feedbackQueue' = Append(feedbackQueue, nFeedback + 1)
    /\ feedbackHistory' = history_on_add(feedbackHistory, nFeedback + 1)
    /\ nFeedback' = nFeedback + 1
    /\ lock' = Released(Caller)
    /\ Goto(Caller, "idle")
    /\ UNCHANGED <<running, queued, bufferThread, sels, fb, cur,
                   recentlyPlayed, clipsPlayed, selectionsMade>>
    /\ UNCHANGED <<moodTrajectory, hist, lastSeen, seedFailed, want, dropped, calls, loaded>>
    /\ OrchOnly

\* main(): /pause, /play, /next call orchestrator.playback directly.
CallTransport ==
    /\ pc[Caller] = "idle"
    /\ Goto(Caller, "transport")
    /\ UNCHANGED <<running, queued, feedbackQueue, lock, bufferThread, sels, fb, cur,
                   recentlyPlayed, feedbackHistory, clipsPlayed, selectionsMade, nFeedback>>
    /\ UNCHANGED <<moodTrajectory, hist, lastSeen, seedFailed, want, dropped, calls, loaded>>
    /\ OrchOnly

\* PlaybackController.pause / play / next: one _send_command.
Transport ==
    /\ pc[Caller] = "transport"
    /\ Goto(Caller, "idle")
    /\ UNCHANGED <<running, queued, feedbackQueue, lock, bufferThread, sels, fb, cur,
                   recentlyPlayed, feedbackHistory, clipsPlayed, selectionsMade, nFeedback>>
    /\ UNCHANGED <<moodTrajectory, hist, lastSeen, seedFailed, want, dropped, calls, loaded>>
    /\ OrchOnly

\* Orchestrator.get_state_summary called.
CallSummary ==
    /\ pc[Caller] = "idle"
    /\ Goto(Caller, "summary")
    /\ UNCHANGED <<running, queued, feedbackQueue, lock, bufferThread, sels, fb, cur,
                   recentlyPlayed, feedbackHistory, clipsPlayed, selectionsMade, nFeedback>>
    /\ UNCHANGED <<moodTrajectory, hist, lastSeen, seedFailed, want, dropped, calls, loaded>>
    /\ OrchOnly

\* Orchestrator.get_state_summary: get_status(), get_queue_duration(),
\* len(self.queued_filenames).
Summary ==
    /\ pc[Caller] = "summary"
    /\ Goto(Caller, "idle")
    /\ UNCHANGED <<running, queued, feedbackQueue, lock, bufferThread, sels, fb, cur,
                   recentlyPlayed, feedbackHistory, clipsPlayed, selectionsMade, nFeedback>>
    /\ UNCHANGED <<moodTrajectory, hist, lastSeen, seedFailed, want, dropped, calls, loaded>>
    /\ OrchOnly

\* ================================================== PlaybackController IPC
\* The two execution contexts that call into the one PlaybackController.
Clients == {"poll", "caller"}
Conns == 1..MaxConns
NoClient == "nobody"

\* Bytes on the wire. A reply to command n is h(n) t(n) NL: two pieces, so
\* that a read can end inside a frame.
NL == <<"nl", 0>>
Bad == <<"bad", 0>>       \* bytes that decode but are not JSON
Xff == <<"xff", 0>>       \* a byte that is not valid UTF-8
Ev == <<"ev", 0>>         \* an event object: valid JSON, not a reply
ReplyFrame(n) == << <<"h", n>>, <<"t", n>> , NL >>

Pending == <<"pending", 0>>
NoResponse == <<"none", 0>>                \* return None
RaisedDecode == <<"raised_decode", 0>>     \* UnicodeDecodeError left the call
RaisedAttr == <<"raised_attr", 0>>         \* AttributeError left the call
Reply(n) == <<"reply", n>>                 \* the parsed reply to command n
Event == <<"event", 0>>                    \* a parsed event object

\* What the engine may write unasked.
Unasked == { <<Bad>>, <<Bad, NL>>, <<Xff, NL>>, <<Ev, NL>>, <<NL>> }

InitIpc ==
    /\ sock = 0
    /\ nConns = 0
    /\ wire = [c \in Conns |-> <<>>]
    /\ reqs = [c \in Conns |-> <<>>]
    /\ closed = [c \in Conns |-> FALSE]
    /\ tpc = [k \in Clients |-> "idle"]
    /\ cmd = [k \in Clients |-> 0]
    /\ resp = [k \in Clients |-> <<>>]
    /\ result = [k \in Clients |-> Pending]
    /\ spin = [k \in Clients |-> 0]
    /\ nCmds = 0
    /\ sentBy = [n \in 1..MaxCmds |-> NoClient]
    /\ nEmits = 0

InitRead ==
    /\ taken = [k \in Clients |-> <<>>]
    /\ reads = [k \in Clients |-> 0]

\* The read loop keeping only the chunk it received last.
Overwrite(response, chunk) == chunk

\* response += chunk
Accumulate(response, chunk) == response \o chunk

\* str.strip(): leading and trailing whitespace removed.
RECURSIVE StripLeft(_)
StripLeft(b) == IF b # <<>> /\ Head(b) = NL THEN StripLeft(Tail(b)) ELSE b

RECURSIVE StripRight(_)
StripRight(b) ==
    IF b # <<>> /\ b[Len(b)] = NL THEN StripRight(SubSeq(b, 1, Len(b) - 1)) ELSE b

Strip(b) == StripRight(StripLeft(b))

\* bytes.decode(): fails on a byte that is not UTF-8.
Decodable(b) == Xff \notin Range(b)

\* json.loads: exactly one JSON value and nothing after it.
IsJson(text) ==
    \/ text = <<Ev>>
    \/ /\ Len(text) = 2
       /\ text[1][1] = "h"
       /\ text[2][1] = "t"
       /\ text[1][2] = text[2][2]

JsonValue(text) == IF text = <<Ev>> THEN Event ELSE Reply(text[1][2])

\* The except clause of _send_command: socket.error, json.JSONDecodeError.
\* An exception of a caught class clears the socket and returns None; any
\* other class leaves the call.
Caught(k) ==
    /\ sock' = 0
    /\ result' = [result EXCEPT ![k] = NoResponse]
    /\ tpc' = [tpc EXCEPT ![k] = "done"]

Escapes(k, exc) ==
    /\ result' = [result EXCEPT ![k] = exc]
    /\ tpc' = [tpc EXCEPT ![k] = "done"]

\* json.loads(response.decode().strip()) and what becomes of its outcome.
ParseOutcome(k) ==
    IF ~Decodable(resp[k])
    THEN Escapes(k, RaisedDecode) /\ UNCHANGED sock
    ELSE IF IsJson(Strip(resp[k]))
         THEN /\ result' = [result EXCEPT ![k] = JsonValue(Strip(resp[k]))]
              /\ tpc' = [tpc EXCEPT ![k] = "done"]
              /\ UNCHANGED sock
         ELSE Caught(k)

\* _send_command called: `if not self._socket and not self.connect()`.
SendCall(k) ==
    /\ tpc[k] = "idle"
    /\ nCmds < MaxCmds
    /\ nCmds' = nCmds + 1
    /\ cmd' = [cmd EXCEPT ![k] = nCmds + 1]
    /\ sentBy' = [sentBy EXCEPT ![nCmds + 1] = k]
    /\ resp' = [resp EXCEPT ![k] = <<>>]
    /\ IF sock # 0
       THEN /\ tpc' = [tpc EXCEPT ![k] = "send"]
            /\ UNCHANGED <<sock, nConns, result>>
       ELSE \/ \* connect() succeeds
               /\ nConns < MaxConns
               /\ nConns' = nConns + 1
               /\ sock' = nConns + 1
               /\ tpc' = [tpc EXCEPT ![k] = "send"]
               /\ UNCHANGED result
            \/ \* connect() fails: self._socket = None, return None
               /\ Caught(k)
               /\ UNCHANGED nConns
    /\ taken' = [taken EXCEPT ![k] = <<>>]
    /\ reads' = [reads EXCEPT ![k] = 0]
    /\ UNCHANGED <<wire, reqs, closed, spin, nEmits>>
    /\ IpcRead

\* self._socket.send(msg.encode())
SendWrite(k) ==
    /\ tpc[k] = "send"
    /\ IF sock = 0
       THEN /\ Escapes(k, RaisedAttr)
            /\ UNCHANGED <<sock, reqs>>
       ELSE \/ /\ reqs' = [reqs EXCEPT ![sock] = Append(@, cmd[k])]
               /\ tpc' = [tpc EXCEPT ![k] = "recv"]
               /\ UNCHANGED <<sock, result>>
            \/ \* the peer is gone: BrokenPipeError
               /\ closed[sock]
               /\ Caught(k)
               /\ UNCHANGED reqs
    /\ UNCHANGED <<nConns, wire, closed, cmd, resp, spin, nCmds, sentBy, nEmits>>
    /\ IpcOnly

\* One pass of the read loop: chunk = recv(4096); response += chunk;
\* `if b"\n" in response: break`.
SendRecv(k) ==
    /\ tpc[k] = "recv"
    /\ IF sock = 0
       THEN /\ Escapes(k, RaisedAttr)
            /\ UNCHANGED <<sock, wire, resp, spin, taken, reads>>
       ELSE IF wire[sock] # <<>>
       THEN \E n \in 1..Len(wire[sock]) :
               LET chunk == SubSeq(wire[sock], 1, n)
                   got == Accumulate(resp[k], chunk)
               IN  /\ wire' = [wire EXCEPT ![sock] = SubSeq(@, n + 1, Len(@))]
                   /\ resp' = [resp EXCEPT ![k] = got]
                   /\ taken' = [taken EXCEPT ![k] = @ \o chunk]
                   /\ reads' = [reads EXCEPT ![k] = @ + 1]
                   /\ tpc' = [tpc EXCEPT ![k] = IF NL \in Range(got) THEN "parse" ELSE "recv"]
                   /\ UNCHANGED <<sock, result, spin>>
       ELSE IF closed[sock]
       THEN \* end of stream: recv returns b"" at once, the loop goes round
            /\ spin' = [spin EXCEPT ![k] = 1 - @]
            /\ UNCHANGED <<sock, wire, resp, result, tpc, taken, reads>>
       ELSE \* nothing arrives within settimeout(2.0): socket.timeout
            /\ Caught(k)
            /\ UNCHANGED <<wire, resp, spin, taken, reads>>
    /\ UNCHANGED <<nConns, reqs, closed, cmd, nCmds, sentBy, nEmits>>
    /\ IpcRead

\* self._socket.setblocking(False); return json.loads(...)
SendParse(k) ==
    /\ tpc[k] = "parse"
    /\ IF sock = 0
       THEN Escapes(k, RaisedAttr) /\ UNCHANGED sock
       ELSE ParseOutcome(k)
    /\ UNCHANGED <<nConns, wire, reqs, closed, cmd, resp, spin, nCmds, sentBy, nEmits>>
    /\ IpcOnly

\* The caller of _send_command goes on.
SendReturn(k) ==
    /\ tpc[k] = "done"
    /\ tpc' = [tpc EXCEPT ![k] = "idle"]
    /\ cmd' = [cmd EXCEPT ![k] = 0]
    /\ resp' = [resp EXCEPT ![k] = <<>>]
    /\ result' = [result EXCEPT ![k] = Pending]
    /\ spin' = [spin EXCEPT ![k] = 0]
    /\ taken' = [taken EXCEPT ![k] = <<>>]
    /\ reads' = [reads EXCEPT ![k] = 0]
    /\ UNCHANGED <<sock, nConns, wire, reqs, closed, nCmds, sentBy, nEmits>>
    /\ IpcRead

\* ------------------------------------------------------------ the engine
\* The engine answers the oldest command it has read on a connection.
EngineReply(c) ==
    /\ c \in 1..nConns
    /\ ~closed[c]
    /\ reqs[c] # <<>>
    /\ wire' = [wire EXCEPT ![c] = @ \o ReplyFrame(Head(reqs[c]))]
    /\ reqs' = [reqs EXCEPT ![c] = Tail(@)]
    /\ UNCHANGED <<sock, nConns, closed, tpc, cmd, resp, result, spin, nCmds, sentBy, nEmits>>
    /\ IpcOnly

\* The engine writes something nobody asked for.
EngineEmit(c) ==
    /\ c \in 1..nConns
    /\ ~closed[c]
    /\ nEmits < MaxEmits
    /\ nEmits' = nEmits + 1
    /\ \E bytes \in Unasked : wire' = [wire EXCEPT ![c] = @ \o bytes]
    /\ UNCHANGED <<sock, nConns, reqs, closed, tpc, cmd, resp, result, spin, nCmds, sentBy>>
    /\ IpcOnly

\* The engine closes the connection.
EngineClose(c) ==
    /\ c \in 1..nConns
    /\ ~closed[c]
    /\ closed' = [closed EXCEPT ![c] = TRUE]
    /\ UNCHANGED <<sock, nConns, wire, reqs, tpc, cmd, resp, result, spin, nCmds, sentBy, nEmits>>
    /\ IpcOnly

ClientStep(k) ==
    \/ SendCall(k)
    \/ SendWrite(k)
    \/ SendRecv(k)
    \/ SendParse(k)
    \/ SendReturn(k)

EngineStep ==
    \E c \in Conns :
        \/ EngineReply(c)
        \/ EngineEmit(c)
        \/ EngineClose(c)

NextIpc == EngineStep \/ \E k \in Clients : ClientStep(k)

\* ===================================================== narrative state calls
\* Seconds and coherence levels are counted in tenths: 1.0 is 10.
One == 10
InitialCoherence == 3
NoLevel == -99
\* float("nan"): every comparison with it is false.
NaN == 99

\* The levels handed to set_coherence: below 0, inside [0, 1], above 1, nan.
Levels == {-5, 0, 3, 7, 10, 15, NaN}

Less(a, b) == a # NaN /\ b # NaN /\ a < b

\* Python's min(a, b) and max(a, b): the first argument unless the second is
\* smaller (larger).
PyMin(a, b) == IF Less(b, a) THEN b ELSE a
PyMax(a, b) == IF Less(a, b) THEN b ELSE a

\* set_coherence with the clamp left out.
set_coherence_raw(level) == level

\* Selector.set_coherence: max(0.0, min(1.0, level))
set_coherence(level) == PyMax(0, PyMin(One, level))

InitState ==
    /\ coherence = InitialCoherence
    /\ asked = NoLevel
    /\ playedLog = <<>>
    /\ feedbackLog = <<>>

\* Orchestrator.set_coherence -> Selector.set_coherence
SetCoherence(level) ==
    /\ coherence' = set_coherence(level)
    /\ asked' = level
    /\ UNCHANGED <<playedLog, feedbackLog>>
    /\ UNCHANGED <<orchVars, ipcVars, estVars, ctxVars, readVars, engVars, restVars>>

\* NarrativeState.add_feedback(text)
RecordFeedback(text) ==
    /\ Len(feedbackLog) < MaxTexts
    /\ feedbackHistory' = add_feedback_state(feedbackHistory, text)
    /\ feedbackLog' = Append(feedbackLog, text)
    /\ UNCHANGED <<coherence, asked, playedLog>>
    /\ UNCHANGED <<running, queued, feedbackQueue, lock, bufferThread, pc, sels, fb, cur,
                   recentlyPlayed, clipsPlayed, selectionsMade, nFeedback,
                   moodTrajectory, hist, lastSeen, seedFailed, want, dropped, calls, loaded>>
    /\ UNCHANGED <<ipcVars, estVars, ctxVars, readVars, engVars, restVars>>

\* NarrativeState.add_played(clip)
RecordPlayed(clip) ==
    /\ Len(playedLog) < MaxRecorded
    /\ recentlyPlayed' = add_played(recentlyPlayed, clip)
    /\ moodTrajectory' = add_mood(moodTrajectory, clip)
    /\ playedLog' = Append(playedLog, clip)
    /\ UNCHANGED <<coherence, asked, feedbackLog>>
    /\ UNCHANGED <<running, queued, feedbackQueue, lock, bufferThread, pc, sels, fb, cur,
                   feedbackHistory, clipsPlayed, selectionsMade, nFeedback,
                   hist, lastSeen, seedFailed, want, dropped, calls, loaded>>
    /\ UNCHANGED <<ipcVars, estVars, ctxVars, readVars, engVars, restVars>>

NextState ==
    \/ \E level \in Levels : SetCoherence(level)
    \/ \E text \in 1..2 : RecordFeedback(text)

NextPlayed == \E clip \in Clips : RecordPlayed(clip)

\* Selector.process_feedback(text): the text recorded, the direction set by
\* the first keyword of the table that occurs in it.
ProcessFeedback(text) ==
    /\ Len(feedbackLog) < MaxProcessed
    /\ feedbackHistory' = add_feedback_state(feedbackHistory, text)
    /\ direction' = process_direction(direction, text)
    /\ feedbackLog' = Append(feedbackLog, text)
    /\ UNCHANGED <<coherence, asked, playedLog>>
    /\ UNCHANGED <<running, queued, feedbackQueue, lock, bufferThread, pc, sels, fb, cur,
                   recentlyPlayed, clipsPlayed, selectionsMade, nFeedback,
                   moodTrajectory, hist, lastSeen, seedFailed, want, dropped, calls, loaded>>
    /\ UNCHANGED <<current_queue, batch, filled>>
    /\ UNCHANGED <<ipcVars, estVars, readVars, engVars, restVars>>

NextProcess == \E text \in 1..NumTexts : ProcessFeedback(text)

\* ========================================================= buffer estimate
AvgClipSeconds == 8
NoEstimate == -999

\* The statuses get_status can return, with the length of get_playlist's
\* list: playlist-pos is -1 when the engine has no current entry, and every
\* property is 0 when its query got no answer.
Statuses ==
    [position : 0..MaxSeconds, duration : 0..MaxSeconds,
     playlist_count : 0..MaxPlaylist, playlist_pos : -1..(MaxPlaylist - 1)]

NoStatus == [position |-> 0, duration |-> 0, playlist_count |-> 0, playlist_pos |-> 0]

InitEst ==
    /\ status = NoStatus
    /\ estimate = NoEstimate

\* PlaybackController.get_remaining_time
get_remaining_time(st) ==
    IF st.duration > 0 THEN st.duration - st.position ELSE 0

\* PlaybackController.get_queue_duration
get_queue_duration(st) ==
    LET remaining_files == st.playlist_count - st.playlist_pos - 1
    IN  get_remaining_time(st) + remaining_files * AvgClipSeconds

\* get_queue_duration called with the engine in the state `status`.
Estimate ==
    /\ estimate = NoEstimate
    /\ estimate' = get_queue_duration(status)
    /\ UNCHANGED status
    /\ UNCHANGED <<orchVars, ipcVars, stateVars, ctxVars, readVars, engVars, restVars>>

\* ================================================================ get_status
\* What one property query of get_status can meet: no response from
\* _send_command, an error envelope, or a success envelope with its data.
AnswersWith(data) ==
    {[kind |-> "none"], [kind |-> "error"]} \cup {[kind |-> "success", data |-> d] : d \in data}

\* One answer for each of the seven queries, with the data the engine can
\* hold: a playlist of two entries, 3 seconds into a clip of 8.
AnswerSets ==
    [idle_active : AnswersWith(BOOLEAN), pause : AnswersWith(BOOLEAN),
     filename : AnswersWith({"A"}), time_pos : AnswersWith({3}),
     duration : AnswersWith({8}), playlist_count : AnswersWith({2}),
     playlist_pos : AnswersWith({-1, 1})]

\* PlaybackController._get_property: the data of a success envelope, None for
\* anything else. `none` stands for None in the type of the property.
get_property(answer, none) == IF answer.kind = "success" THEN answer.data ELSE none

\* Python's `x or False` and `x or 0`, with x a value of _get_property.
OrFalse(answer) == get_property(answer, FALSE) \/ FALSE
OrZero(answer) == IF get_property(answer, 0) # 0 THEN get_property(answer, 0) ELSE 0

\* PlaybackController.get_status
get_status(a) ==
    [playing |-> ~OrFalse(a.idle_active),
     paused |-> OrFalse(a.pause),
     filename |-> get_property(a.filename, NoFile),
     position |-> OrZero(a.time_pos),
     duration |-> OrZero(a.duration),
     playlist_count |-> OrZero(a.playlist_count),
     playlist_pos |-> OrZero(a.playlist_pos)]

InitPoll ==
    /\ answers = [idle_active |-> [kind |-> "none"], pause |-> [kind |-> "none"],
                  filename |-> [kind |-> "none"], time_pos |-> [kind |-> "none"],
                  duration |-> [kind |-> "none"], playlist_count |-> [kind |-> "none"],
                  playlist_pos |-> [kind |-> "none"]]
    /\ polled = <<>>

\* get_status called with the engine answering as `answers` says.
GetStatus ==
    /\ polled = <<>>
    /\ polled' = <<get_status(answers)>>
    /\ UNCHANGED answers
    /\ UNCHANGED <<orchVars, ipcVars, stateVars, estVars, ctxVars, readVars, engVars, sampleVars>>

\* ============================================================ _smart_sample
\* The motion_intensity values of the manifest's clips: the three the sampler
\* groups by, one of them in capitals, and one it does not know.
Motions == {"low", "medium", "HIGH", "frantic"}

\* The motion_intensity compared as written.
lower_skipped(word) == word

\* str.lower()
Lower(word) == IF word = "HIGH" THEN "high" ELSE word

Buckets == <<"low", "medium", "high">>

\* A clip is its motion_intensity and a number; no two clips are equal.
AllClips == Motions \X (1..MaxPer)

\* The list `clips` of a pool with pool[m] clips of motion m.
ClipsOf(p) == {c \in AllClips : c[2] <= p[c[1]]}

\* The by_motion key a clip is appended to.
BucketOf(c) ==
    IF Lower(c[1]) \in Range(Buckets) THEN Lower(c[1]) ELSE "medium"

by_motion(clips, bucket) == {c \in clips : BucketOf(c) = bucket}

\* random.sample(population, k): k different members, any of them.
Samples(population, k) == {S \in SUBSET population : Cardinality(S) = k}

Min(a, b) == IF a < b THEN a ELSE b

\* result.extend(sample)
Extend(res, sample) == [c \in AllClips |-> IF c \in sample THEN res[c] + 1 ELSE res[c]]

NoClips == [c \in AllClips |-> 0]

RECURSIVE Total(_, _)
Total(res, S) ==
    IF S = {} THEN 0
    ELSE LET c == CHOOSE x \in S : TRUE IN res[c] + Total(res, S \ {c})

\* len(result)
Size(res) == Total(res, AllClips)

\* per_group with every group allowed the whole of n.
per_group_whole(n) == n

\* per_group = n // 3
per_group(n) == n \div 3

\* The fill drawn from all of `clips`, used or not.
unused_any(clips, res) == clips

\* unused = [c for c in clips if c not in result]
unused(clips, res) == {c \in clips : res[c] = 0}

InitSample ==
    /\ pool = [m \in Motions |-> 0]
    /\ sampleCap = 0
    /\ picked = NoClips
    /\ phase = "idle"
    /\ excludedNames = {}

\* The slots left after the groups, filled from the unused clips.
fill_remaining(clips, n, grouped) ==
    LET remaining == n - Size(grouped)
        rest == unused(clips, grouped)
    IN  IF remaining > 0
        THEN {Extend(grouped, s4) : s4 \in Samples(rest, Min(remaining, Cardinality(rest)))}
        ELSE {grouped}

\* _smart_sample(clips, n): per_group = n // 3 from each group in the order
\* low, medium, high, then the remaining slots from the unused clips. The
\* value is the set of its possible results, one for each random choice.
smart_sample(clips, n) ==
    LET low == by_motion(clips, Buckets[1])
        medium == by_motion(clips, Buckets[2])
        high == by_motion(clips, Buckets[3])
    IN  UNION {fill_remaining(clips, n, Extend(Extend(Extend(NoClips, s[1]), s[2]), s[3])) :
                  s \in Samples(low, Min(per_group(n), Cardinality(low)))
                        \X Samples(medium, Min(per_group(n), Cardinality(medium)))
                        \X Samples(high, Min(per_group(n), Cardinality(high)))}

SmartSample ==
    /\ phase = "called"
    /\ picked' \in smart_sample(ClipsOf(pool), sampleCap)
    /\ phase' = "returned"
    /\ UNCHANGED <<pool, sampleCap, excludedNames>>
    /\ UNCHANGED <<orchVars, ipcVars, stateVars, estVars, ctxVars, readVars, engVars, pollVars>>

\* select() with the exclusion left out.
available_all(clips, exclude) == clips

\* available = [c for c in self.manifest.clips if c.filename not in exclude]
available_clips(clips, exclude) == {c \in clips : c \notin exclude}

\* Selector.select up to build_prompt: the available clips, or a sample of
\* them when there are more than the limit. The limit, the literal 50 in the
\* source, is the number sampleCap, so that manifests larger than the limit
\* can be enumerated. picked is the list handed to build_prompt.
SelectCandidates ==
    /\ phase = "select"
    /\ LET available == available_clips(ClipsOf(pool), excludedNames)
       IN  IF available = {}
           THEN \* {"error": "No available clips"}
                /\ phase' = "error"
                /\ UNCHANGED picked
           ELSE /\ phase' = "prompted"
                /\ IF Cardinality(available) > sampleCap
                   THEN picked' \in smart_sample(available, sampleCap)
                   ELSE picked' = Extend(NoClips, available)
    /\ UNCHANGED <<pool, sampleCap, excludedNames>>
    /\ UNCHANGED <<orchVars, ipcVars, stateVars, estVars, ctxVars, readVars, engVars, pollVars>>

\* ===================================================== engine start and stop
Procs == 1..MaxSpawns
NoOwner == 0        \* no file at socket_path
Leftover == -1      \* a file at socket_path that an earlier run left behind

InitEngine ==
    /\ mpvProcess = 0
    /\ engine = [p \in Procs |-> "unborn"]
    /\ sockFile = NoOwner
    /\ ret = "none"

\* _cleanup_socket with the unlink left out.
cleanup_socket_kept(file) == file

\* PlaybackController._cleanup_socket: os.unlink(self.socket_path)
cleanup_socket(file) == NoOwner

\* connect() with the `if self._socket` test left out.
NeverConnected(s) == FALSE

\* `if self._socket:` of connect()
AlreadyConnected(s) == s # 0

\* Something accepts connections at socket_path.
Listening == sockFile \in Procs /\ engine[sockFile] = "listening"

EngineFrame ==
    /\ UNCHANGED <<wire, reqs, closed, tpc, cmd, resp, result, spin, nCmds, sentBy, nEmits>>
    /\ UNCHANGED <<orchVars, stateVars, estVars, ctxVars, readVars, restVars>>

\* start_mpv up to the wait: _cleanup_socket(), then Popen, which either
\* spawns a process or raises FileNotFoundError.
StartMpv ==
    /\ ret # "waiting"
    /\ sockFile' = cleanup_socket(sockFile)
    /\ \/ \E p \in Procs :
             /\ engine[p] = "unborn"
             /\ \A q \in Procs : q < p => engine[q] # "unborn"
             /\ engine' = [engine EXCEPT ![p] = "starting"]
             /\ mpvProcess' = p
             /\ ret' = "waiting"
       \/ /\ ret' = "start_failed"
          /\ UNCHANGED <<mpvProcess, engine>>
    /\ UNCHANGED <<sock, nConns>>
    /\ EngineFrame

\* The wait of start_mpv: True as soon as a file exists at socket_path,
\* False when none has appeared after 50 looks.
StartMpvWait ==
    /\ ret = "waiting"
    /\ ret' = IF sockFile # NoOwner THEN "start_ok" ELSE "start_failed"
    /\ UNCHANGED <<mpvProcess, engine, sockFile, sock, nConns>>
    /\ EngineFrame

\* An engine process that has started creates its socket at socket_path, in
\* place of any file there.
EngineListen(p) ==
    /\ engine[p] = "starting"
    /\ engine' = [engine EXCEPT ![p] = "listening"]
    /\ sockFile' = p
    /\ UNCHANGED <<mpvProcess, ret, sock, nConns>>
    /\ EngineFrame

\* PlaybackController.connect
Connect ==
    /\ ret # "waiting"
    /\ IF AlreadyConnected(sock)
       THEN /\ ret' = "connect_ok"
            /\ UNCHANGED <<sock, nConns>>
       ELSE \/ /\ Listening
               /\ nConns < MaxConns
               /\ nConns' = nConns + 1
               /\ sock' = nConns + 1
               /\ ret' = "connect_ok"
            \/ \* socket.error or FileNotFoundError
               /\ sock' = 0
               /\ ret' = "connect_failed"
               /\ UNCHANGED nConns
    /\ UNCHANGED <<mpvProcess, engine, sockFile>>
    /\ EngineFrame

\* The except clause of _send_command: self._socket = None.
ConnectionLost ==
    /\ ret # "waiting"
    /\ sock # 0
    /\ sock' = 0
    /\ UNCHANGED <<nConns, mpvProcess, engine, sockFile, ret>>
    /\ EngineFrame

\* PlaybackController.stop_mpv: disconnect(), terminate() and wait(), the
\* handle cleared, _cleanup_socket().
StopMpv ==
    /\ ret # "waiting"
    /\ sock' = 0
    /\ engine' = IF mpvProcess # 0 THEN [engine EXCEPT ![mpvProcess] = "dead"] ELSE engine
    /\ mpvProcess' = 0
    /\ sockFile' = cleanup_socket(sockFile)
    /\ ret' = "stopped"
    /\ UNCHANGED nConns
    /\ EngineFrame

NextEngine ==
    \/ StartMpv
    \/ StartMpvWait
    \/ \E p \in Procs : EngineListen(p)
    \/ Connect
    \/ ConnectionLost
    \/ StopMpv

\* ============================================================ specifications
LoopStep(t) ==
    \/ LoopBegin(t)
    \/ FillSelect(t)
    \/ FillEnqueue(t)
    \/ LoopDrainLock(t)
    \/ LoopDrain(t)
    \/ LoopProcess(t)
    \/ LoopStatus(t)
    \/ LoopMark(t)
    \/ LoopExcept(t)

CallerStep ==
    \/ Start
    \/ FillSelect(Caller)
    \/ FillEnqueue(Caller)
    \/ StartSpawn
    \/ Stop
    \/ StopJoin
    \/ AddFeedbackLock
    \/ AddFeedback
    \/ CallTransport
    \/ Transport
    \/ CallSummary
    \/ Summary

NextOrch == CallerStep \/ \E t \in Loops : LoopStep(t)

\* The variables a specification leaves at their first values.
InitRest == InitCtx /\ InitRead /\ InitEngine /\ InitSample /\ InitPoll

Init == InitOrch /\ InitIpc /\ InitState /\ InitEst /\ InitRest

Next == NextOrch

Spec == Init /\ [][Next]_vars

\* The same threads, with the per-cycle histories kept.
InitHist == InitOrchWith(TRUE) /\ InitIpc /\ InitState /\ InitEst /\ InitRest

SpecHist == InitHist /\ [][Next]_vars

\* A poll thread that can take a step eventually takes one.
SpecLive == Spec /\ \A t \in Loops : WF_vars(LoopStep(t))

SpecIpc == Init /\ [][NextIpc]_vars

\* A thread inside _send_command keeps running.
SpecIpcLive == SpecIpc /\ \A k \in Clients : WF_vars(ClientStep(k))

\* Any sequence of set_coherence and NarrativeState.add_feedback calls.
SpecState == Init /\ [][NextState]_vars

\* Any sequence of NarrativeState.add_played calls.
SpecPlayed == Init /\ [][NextPlayed]_vars

\* get_queue_duration applied to any status.
InitAnyStatus ==
    /\ InitOrch /\ InitIpc /\ InitState /\ InitRest
    /\ status \in Statuses
    /\ status.playlist_pos < status.playlist_count \/ status.playlist_pos = 0
    /\ status.playlist_count = 0 => (status.duration = 0 /\ status.position = 0)
    /\ estimate = NoEstimate

SpecEstimate == InitAnyStatus /\ [][Estimate]_vars

\* get_status applied to any answers of the engine.
InitAnyAnswers ==
    /\ InitOrch /\ InitIpc /\ InitState /\ InitEst
    /\ InitCtx /\ InitRead /\ InitEngine /\ InitSample
    /\ answers \in AnswerSets
    /\ polled = <<>>

SpecStatus == InitAnyAnswers /\ [][GetStatus]_vars

\* _smart_sample applied to any pool larger than n.
InitAnyPool ==
    /\ InitOrch /\ InitIpc /\ InitState /\ InitEst
    /\ InitCtx /\ InitRead /\ InitEngine /\ InitPoll
    /\ pool \in [Motions -> 0..MaxPer]
    /\ sampleCap \in 0..MaxCap
    /\ Cardinality(ClipsOf(pool)) > sampleCap
    /\ picked = NoClips
    /\ phase = "called"
    /\ excludedNames = {}

SpecSample == InitAnyPool /\ [][SmartSample]_vars

\* select() applied to any manifest and any exclusion list that names the
\* first clip of some motion values.
InitAnyExclusion ==
    /\ InitOrch /\ InitIpc /\ InitState /\ InitEst
    /\ InitCtx /\ InitRead /\ InitEngine /\ InitPoll
    /\ pool \in [Motions -> 0..MaxPer]
    /\ sampleCap \in 1..MaxCap
    /\ excludedNames \in {ClipsOf(q) : q \in [Motions -> {0, 1}]}
    /\ picked = NoClips
    /\ phase = "select"

SpecCandidates == InitAnyExclusion /\ [][SelectCandidates]_vars

\* Any sequence of fill cycles of one thread.
SpecFill == Init /\ [][FillBuffer]_vars

\* Any sequence of start_mpv, connect and stop_mpv calls of one thread, with
\* or without a socket file that an earlier run left behind.
InitAnyFile ==
    /\ InitOrch /\ InitIpc /\ InitState /\ InitEst
    /\ InitCtx /\ InitRead /\ InitSample /\ InitPoll
    /\ mpvProcess = 0
    /\ engine = [p \in Procs |-> "unborn"]
    /\ sockFile \in {NoOwner, Leftover}
    /\ ret = "none"

SpecEngine == InitAnyFile /\ [][NextEngine]_vars

\* Any sequence of process_feedback calls.
SpecProcess == Init /\ [][NextProcess]_vars

\* ------------------------------------------------------------ observers
\* A poll thread that start() has created and that has not left _buffer_loop.
Alive(t) == pc[t] \notin {"unborn", "dead"}

\* Thread t's next statement reads or writes self.queued_filenames:
\* _fill_buffer's exclude list and append, _mark_current_as_played's test and
\* remove, get_state_summary's len().
TouchesQueued(t) == pc[t] \in {"select", "enqueue", "status", "mark", "summary"}

\* Thread t's next statement reads or writes self._feedback_queue.
TouchesInbox(t) == pc[t] \in {"drain", "append"}

\* The caller's next statement is an IPC round trip of a control-surface
\* call: pause / play / next, or get_state_summary's get_status().
CallerInIpc == pc[Caller] \in {"transport", "summary"}

\* The Scheduler's lifecycle state, read off the running flag and the
\* caller's position inside start() and stop().
Lifecycle ==
    IF pc[Caller] \in {"select", "enqueue", "spawn"} THEN "Starting"
    ELSE IF pc[Caller] = "join" /\ \E t \in Loops : Alive(t) THEN "Stopping"
    ELSE IF running THEN "Running"
    ELSE "Stopped"

\* Every text handed to add_feedback so far, wherever it is now.
FeedbackEverywhere ==
    LET held[t \in 0..MaxStarts] ==
            IF t = 0 THEN <<>> ELSE held[t - 1] \o fb[t]
    IN  feedbackHistory \o held[MaxStarts] \o feedbackQueue

\* ------------------------------------------------------------- claims

\* C1: while the Scheduler is running, an exception inside a poll iteration
\* never ends the poll thread: the thread leaves _buffer_loop only by reading
\* running = False at the loop head, and a failed iteration is followed by
\* the loop head, where the next iteration begins.
C1_LoopSurvivesFailure ==
    /\ [][\A t \in Loops :
             (pc[t] # "dead" /\ pc'[t] = "dead") => (pc[t] = "top" /\ ~running)]_vars
    /\ \A t \in Loops : (pc[t] = "except") ~> (pc[t] = "top")

\* C1 witness: a poll iteration has failed while the Scheduler is running.
C1_Witness == \E t \in Loops : pc[t] = "except" /\ running

\* C4: at most one poll loop is alive, whatever start() and stop() calls were
\* made.
C4_AtMostOneLoop == Cardinality({t \in Loops : Alive(t)}) <= 1

\* C5: every text handed to add_feedback is in exactly one place (inbox, one
\* drain's batch, or feedback history), and the texts are processed in the
\* order they were appended.
C5_FeedbackExactlyOnceInOrder ==
    /\ Len(FeedbackEverywhere) = nFeedback
    /\ Range(FeedbackEverywhere) = 1..nFeedback
    /\ StrictlyIncreasing(feedbackHistory)

\* C6: a poll thread about to read or write the feedback inbox or the queued
\* list holds the Orchestrator's lock, and so does the caller's thread inside
\* add_feedback and get_state_summary.
C6_SharedAccessUnderLock ==
    /\ \A t \in Loops : (TouchesQueued(t) \/ TouchesInbox(t)) => lock = t
    /\ pc[Caller] \in {"append", "summary"} => lock = Caller

\* C7: while the Scheduler is running, the caller's thread performs no IPC
\* round trip for pause, resume, skip or getStateSummary.
C7_NoIpcOnCallerThread == running => ~CallerInIpc

\* C9: the queued list holds every identifier at most once.
C9_QueuedNoDuplicates == NoDuplicates(queued)

\* C10: a reconciliation of x (x reported as current while queued) leaves x
\* out of the queued list, keeps every other queued identifier, ends
\* recentlyPlayed with x and adds exactly one to the played counter.
C10_Reconciliation ==
    [][\A t \in Loops :
          (pc[t] = "mark" /\ cur[t] \in Range(queued) /\ pc'[t] = "top") =>
              /\ cur[t] \notin Range(queued')
              /\ Range(queued) \ {cur[t]} \subseteq Range(queued')
              /\ recentlyPlayed' # <<>>
              /\ recentlyPlayed'[Len(recentlyPlayed')] = cur[t]
              /\ clipsPlayed' = clipsPlayed + 1]_vars

\* C11: a queued clip is recorded as played only when the poll iteration
\* before this one saw a different current filename: while the engine goes on
\* reporting one filename, it is recorded once.
C11_RecordedOncePerPlayback ==
    [][\A t \in Loops :
          (pc[t] = "mark" /\ clipsPlayed' = clipsPlayed + 1) => cur[t] # lastSeen]_vars

\* C12: a start() whose seed fill cycle returned without selections ends
\* without setting the running flag and without creating a poll thread.
C12_FailedSeedLeavesStopped ==
    [][(pc[Caller] = "spawn" /\ seedFailed /\ ~running) =>
          (~running' /\ bufferThread' = bufferThread)]_vars

\* C13: the lifecycle state changes only along Stopped -> Starting,
\* Starting -> Running, Starting -> Stopped, Running -> Stopping and
\* Stopping -> Stopped.
C13_LifecycleTransitions ==
    [][\/ Lifecycle' = Lifecycle
       \/ <<Lifecycle, Lifecycle'>> \in
              { <<"Stopped", "Starting">>, <<"Starting", "Running">>,
                <<"Starting", "Stopped">>, <<"Running", "Stopping">>,
                <<"Stopping", "Stopped">> }]_vars

\* C14: a fill cycle that finds every manifest clip in recent history or in
\* the queued list returns at once: no collaborator outcome (selections or an
\* exception) follows, and the queued list, the fill-cycle counter and the
\* narrative state are as before.
C14_EmptyPoolNoChange ==
    [][\A t \in Threads :
          ( /\ pc[t] = "select"
            /\ pc'[t] # "select"
            /\ Clips \subseteq (Range(recentlyPlayed) \cup Range(queued)) ) =>
              /\ pc'[t] = AfterFill(t)
              /\ sels'[t] = <<>>
              /\ queued' = queued
              /\ selectionsMade' = selectionsMade
              /\ recentlyPlayed' = recentlyPlayed
              /\ moodTrajectory' = moodTrajectory
              /\ feedbackHistory' = feedbackHistory
              /\ coherence' = coherence]_vars

\* C14 witness: a fill cycle begins with an empty eligible pool.
C14_Witness ==
    \E t \in Threads :
        pc[t] = "select" /\ Clips \subseteq (Range(recentlyPlayed) \cup Range(queued))

\* C15: in a fill cycle the add_to_playlist calls made and the selections
\* still to enqueue add up to the number of manifest filenames in the
\* collaborator's answer, only manifest filenames are enqueued, and the cycle
\* ends after exactly that many calls.
C15_EnqueueCallsMatchKnown ==
    /\ [](\A t \in Threads :
             pc[t] = "enqueue" =>
                 /\ calls[t] + Len(sels[t]) = want[t]
                 /\ Range(sels[t]) \subseteq Clips)
    /\ [][\A t \in Threads :
             (pc[t] = "enqueue" /\ pc'[t] = AfterFill(t)) => calls[t] + 1 = want[t]]_vars

\* C15 witness: the answer held one manifest filename and one unknown one, and
\* the cycle goes on to enqueue the one.
C15_Witness ==
    \E t \in Threads :
        pc[t] = "enqueue" /\ want[t] = 1 /\ dropped[t] = 1 /\ Len(sels[t]) = 1

\* C16: the queued list holds manifest filenames only, one per loadfile the
\* engine answered with success and not yet reconciled, and it grows only in
\* a step in which the engine answers success.
C16_QueuedKnownAndAcked ==
    /\ [](/\ Range(queued) \subseteq Clips
          /\ Len(queued) + clipsPlayed = loaded)
    /\ [][Len(queued') > Len(queued) =>
             /\ loaded' = loaded + 1
             /\ \E f \in Clips : queued' = Append(queued, f)]_vars

\* C16 witness: the engine has acknowledged a load and the clip is queued.
C16_Witness == loaded >= 1 /\ queued # <<>>

\* The most recent min(Len(log), cap) entries of a call log, oldest first.
MostRecent(log, cap) ==
    LET n == IF Len(log) < cap THEN Len(log) ELSE cap
    IN  [i \in 1..n |-> log[Len(log) - n + i]]

\* C17: after any sequence of add_played calls recentlyPlayed has at most 10
\* entries and moodTrajectory at most 15, and they are the clips, and the
\* moods of the clips, of the most recent calls in call order.
C17_PlayedBounded ==
    /\ Len(recentlyPlayed) <= 10
    /\ Len(moodTrajectory) <= 15
    /\ recentlyPlayed = MostRecent(playedLog, 10)
    /\ moodTrajectory =
           [i \in DOMAIN MostRecent(playedLog, 15) |-> Mood(MostRecent(playedLog, 15)[i])]

\* C17 witness: more calls were made than either sequence holds.
C17_Witness == Len(playedLog) = 16

\* C18: after any sequence of add_feedback calls feedbackHistory has at most
\* 10 entries and is the texts of the most recent calls in call order; a call
\* made on a full history drops its oldest entry and nothing else.
C18_FeedbackBounded ==
    /\ [](/\ Len(feedbackHistory) <= 10
          /\ feedbackHistory = MostRecent(feedbackLog, 10))
    /\ [][(Len(feedbackHistory) = 10 /\ feedbackLog' # feedbackLog) =>
             feedbackHistory' =
                 Append(Tail(feedbackHistory), feedbackLog'[Len(feedbackLog')])]_vars

\* C18 witness: an eleventh text was recorded.
C18_Witness == Len(feedbackLog) = 11

\* A level clamped to [0, 1], in tenths.
Clamped(x) == IF x < 0 THEN 0 ELSE IF x > 10 THEN 10 ELSE x

\* C19: the coherence level lies in [0, 1], and after set_coherence(x) it is
\* max(0, min(1, x)).
C19_CoherenceClamped ==
    /\ coherence \in 0..10
    /\ asked \notin {NoLevel, NaN} => coherence = Clamped(asked)

\* C19 witness: a level above 1 was handed in and 1 was stored.
C19_Witness == asked = 15 /\ coherence = 10

\* The seconds left in the current file, never below 0, and the playlist
\* entries after the current one.
RemainingInCurrent(st) ==
    IF st.duration - st.position > 0 THEN st.duration - st.position ELSE 0

EntriesAfterCurrent(st) ==
    IF st.playlist_count - st.playlist_pos - 1 > 0
    THEN st.playlist_count - st.playlist_pos - 1
    ELSE 0

\* C20: get_queue_duration returns the seconds left in the current file,
\* never below 0, plus 8 for every playlist entry after the current one, and
\* so never a negative number.
C20_EstimateNonNegative ==
    estimate # NoEstimate =>
        /\ estimate = RemainingInCurrent(status) + 8 * EntriesAfterCurrent(status)
        /\ estimate >= 0

\* C2: every _send_command call returns, whatever the engine does after the
\* request is written.
C2_SendCommandReturns ==
    \A k \in Clients : (tpc[k] \in {"send", "recv", "parse"}) ~> (tpc[k] = "done")

\* C3: _send_command never raises to its caller.
C3_SendCommandNeverRaises ==
    \A k \in Clients : result[k] \notin {RaisedDecode, RaisedAttr}

\* C8: a _send_command that returns a reply never returns the reply to a
\* command the other thread sent.
C8_ReplyOfOwnCommand ==
    \A k \in Clients :
        (tpc[k] = "done" /\ result[k][1] = "reply") => sentBy[result[k][2]] = k

\* ---------------------------------------------------------------- C21..C30
\* A property query that got no response or an error envelope.
Unanswered(answer) == answer.kind # "success"

\* C21: get_status does not fail, and every property whose query got no
\* response or an error envelope has its zero value in the status returned:
\* playing false, paused false, no filename, position 0, duration 0, playlist
\* length 0, playlist position 0.
C21_UnansweredIsZero ==
    polled # <<>> =>
        /\ Unanswered(answers.idle_active) => polled[1].playing = FALSE
        /\ Unanswered(answers.pause) => polled[1].paused = FALSE
        /\ Unanswered(answers.filename) => polled[1].filename = NoFile
        /\ Unanswered(answers.time_pos) => polled[1].position = 0
        /\ Unanswered(answers.duration) => polled[1].duration = 0
        /\ Unanswered(answers.playlist_count) => polled[1].playlist_count = 0
        /\ Unanswered(answers.playlist_pos) => polled[1].playlist_pos = 0

\* C22: for every n and every pool of distinct clips larger than n,
\* _smart_sample returns exactly n clips, all of them clips of the pool, none
\* of them twice, whatever random.sample picks.
C22_SampleExact ==
    phase = "returned" =>
        /\ Size(picked) = sampleCap
        /\ \A c \in AllClips : picked[c] > 0 => c \in ClipsOf(pool)
        /\ \A c \in AllClips : picked[c] <= 1

\* C22 witness: a sample of 4 (one from each group and one more) taken from a
\* larger pool that has clips of every group.
C22_Witness ==
    /\ phase = "returned"
    /\ sampleCap = 4
    /\ Size(picked) = 4
    /\ \A i \in DOMAIN Buckets : by_motion(ClipsOf(pool), Buckets[i]) # {}

\* ceil(n / 3)
CeilThird(n) == (n + 2) \div 3

\* How many clips of a group the sample holds.
Contribution(bucket) == Total(picked, by_motion(AllClips, bucket))

\* Each of the three groups of the pool holds at least ceil(n/3) clips.
GroupsFull ==
    \A i \in DOMAIN Buckets :
        Cardinality(by_motion(ClipsOf(pool), Buckets[i])) >= CeilThird(sampleCap)

\* C23 as stated: when the pool is larger than n and each of the three groups
\* holds at least ceil(n/3) clips, no group has more than ceil(n/3) clips in
\* the sample.
C23_BucketShare ==
    (phase = "returned" /\ GroupsFull)
    => \A i \in DOMAIN Buckets : Contribution(Buckets[i]) <= CeilThird(sampleCap)

\* C23 amended: under the same conditions no group has more than
\* floor(n/3) + (n mod 3) clips in the sample.
C23_BucketShareWithRemainder ==
    (phase = "returned" /\ GroupsFull)
    => \A i \in DOMAIN Buckets :
           Contribution(Buckets[i]) <= (sampleCap \div 3) + (sampleCap % 3)

\* C23 witness: of a sample of 5 from a pool with at least 2 clips in every
\* group, one group has 3.
C23_Witness ==
    /\ phase = "returned"
    /\ sampleCap = 5
    /\ GroupsFull
    /\ \E i \in DOMAIN Buckets : Contribution(Buckets[i]) = 3

\* C24: when a fill cycle builds the context it hands to the collaborator,
\* the context's queued_count is the number of filenames in queued_filenames.
C24_QueuedCountMatches ==
    \A t \in Threads :
        (pc[t] = "select" /\ Available(Range(recentlyPlayed) \cup Range(queued)) # {})
        => to_context.queued_count = Len(queued)

\* A step is a return of stop_mpv: no engine begins to listen in it.
StopReturns ==
    /\ ret' = "stopped"
    /\ \A p \in Procs : engine'[p] = "listening" => engine[p] = "listening"

\* C25: when stop_mpv returns the client has no connection and no process
\* handle and no file exists at socket_path; start_mpv spawns the engine with
\* no file at socket_path, and reports the engine ready only on a file that a
\* running engine created, never on one left behind.
C25_StopAndStartClean ==
    [][/\ StopReturns => (sock' = 0 /\ mpvProcess' = 0 /\ sockFile' = NoOwner)
       /\ (\E p \in Procs : engine[p] = "unborn" /\ engine'[p] = "starting")
              => sockFile' = NoOwner
       /\ (ret = "waiting" /\ ret' = "start_ok")
              => (sockFile \in Procs /\ engine[sockFile] = "listening")]_vars

\* C25 witness: a start_mpv that followed a stopped earlier run has reported
\* the second engine ready.
C25_Witness ==
    /\ ret = "start_ok"
    /\ engine[1] = "dead"
    /\ sockFile = 2

\* A step is a return of connect().
ConnectReturns ==
    /\ ret' \in {"connect_ok", "connect_failed"}
    /\ ret' # ret \/ nConns' # nConns

\* C26: connect() on a client whose connection is open succeeds, opens no
\* socket and leaves the connection as it is; with nothing listening at
\* socket_path it reports failure; a failure leaves no cached connection, and
\* a connect() on a client without one opens a fresh connection.
C26_ConnectIdempotent ==
    [][ConnectReturns =>
          /\ sock # 0 => (ret' = "connect_ok" /\ sock' = sock /\ nConns' = nConns)
          /\ (sock = 0 /\ ~Listening) => ret' = "connect_failed"
          /\ ret' = "connect_failed" => sock' = 0
          /\ (sock = 0 /\ ret' = "connect_ok")
                 => (nConns' = nConns + 1 /\ sock' = nConns')]_vars

\* C26 witness: after a connection was lost a later connect() has opened a
\* second one.
C26_Witness == ret = "connect_ok" /\ nConns = 2 /\ sock = 2

\* C27: a call that has received exactly the reply frame of a command, in one
\* read or in several, returns the parsed reply; the only other outcome, in
\* one read as in several, is the AttributeError of a socket that another
\* thread has cleared meanwhile.
C27_SplitReadsSameResult ==
    \A k \in Clients : \A n \in 1..MaxCmds :
        (tpc[k] = "done" /\ taken[k] = ReplyFrame(n))
        => result[k] \in {Reply(n), RaisedAttr}

\* C27 witness: a reply frame that arrived in more than one read was parsed.
C27_Witness ==
    \E k \in Clients : \E n \in 1..MaxCmds :
        /\ tpc[k] = "done"
        /\ taken[k] = ReplyFrame(n)
        /\ reads[k] >= 2
        /\ result[k] = Reply(n)

\* C28: no poll iteration that has started a fill cycle ends in the except
\* clause before its get_status call, whether the fill cycle enqueued clips,
\* enqueued none or failed.
C28_ReconcileAfterEveryFill ==
    \A t \in Loops : pc[t] = "except" => ~filled[t]

\* C29: while a poll thread is in its fill cycle, no text that its running
\* iteration drained is in the context the collaborator gets.
C29_FeedbackAfterFill ==
    \A t \in Loops :
        pc[t] \in {"select", "enqueue"}
        => Range(to_context.recent_feedback) \cap batch[t] = {}

\* C29 witness: a fill cycle of a later iteration builds its context with a
\* text that an earlier iteration drained, and with the direction it set.
C29_Witness ==
    \E t \in Loops :
        /\ pc[t] = "select"
        /\ batch[t] = {}
        /\ to_context.recent_feedback # <<>>
        /\ to_context.direction # InitialDirection

\* The table entries whose keyword occurs in the lower-cased text.
Matching(text) == {i \in DOMAIN Keywords : Occurs(Keywords[i], text)}

\* C30: process_feedback sets direction to the direction of the first table
\* entry whose keyword occurs in the lower-cased text, leaves it as it is when
\* none occurs, and in both cases appends the text to feedback_history.
C30_FirstKeywordWins ==
    [][\A text \in 1..NumTexts :
          feedbackLog' = Append(feedbackLog, text)
          => /\ feedbackHistory'[Len(feedbackHistory')] = text
             /\ direction' =
                    IF Matching(text) = {} THEN direction
                    ELSE Directions[CHOOSE i \in Matching(text) :
                                        \A j \in Matching(text) : i <= j]]_vars

\* C30 witness: the text "funny Darker" has been processed and the direction
\* is that of darker, the earlier table entry.
C30_Witness ==
    /\ feedbackLog # <<>>
    /\ Content(feedbackLog[Len(feedbackLog)]) = <<"funny", "Darker">>
    /\ direction = Directions[1]

\* ---------------------------------------------------------------- C31..C40
\* Thread t's next statement is an IPC round trip or the collaborator call:
\* the fill cycle's select and add_to_playlist, get_status, play(), the
\* control surface's pause / play / next and get_state_summary.
InBlockingCall(t) ==
    pc[t] \in {"select", "enqueue", "status", "spawn", "transport", "summary"}

\* C31 as stated: in every state in which a thread is inside an IPC round
\* trip or the collaborator call, no thread owns the lock.
C31_NoOwnerDuringBlockingCall ==
    (\E t \in Threads : InBlockingCall(t)) => lock = NoThread

\* C31 amended: a thread inside an IPC round trip or the collaborator call
\* does not own the lock.
C31_NotHeldAcrossBlockingCall ==
    \A t \in Threads : InBlockingCall(t) => lock # t

\* C31 witness: a poll thread is at its get_status round trip while the
\* caller's thread owns the lock inside add_feedback.
C31_Witness == lock = Caller /\ \E t \in Loops : pc[t] = "status"

\* C32: a step of add_feedback appends the text to the inbox and leaves the
\* direction, the feedback history, the queued filenames and the play history
\* alone; the direction and the feedback history change only when a poll
\* thread processes a text of the batch it drained, and no text still in the
\* inbox is in the feedback history.
C32_AddFeedbackOnlyInbox ==
    [][/\ nFeedback' # nFeedback =>
            /\ feedbackQueue' = Append(feedbackQueue, nFeedback')
            /\ UNCHANGED <<direction, feedbackHistory, queued, recentlyPlayed,
                           moodTrajectory, fb>>
       /\ (direction' # direction \/ feedbackHistory' # feedbackHistory) =>
            \E t \in Loops :
                /\ pc[t] = "process"
                /\ fb[t] # <<>>
                /\ Head(fb[t]) \notin Range(feedbackQueue)
                /\ direction' = process_direction(direction, Head(fb[t]))
       /\ Range(feedbackQueue') \cap Range(feedbackHistory') = {}]_vars

\* C32 witness: a text waits in the inbox, unprocessed, while a poll thread
\* that has finished its drain is at its status poll.
C32_Witness ==
    /\ feedbackQueue # <<>>
    /\ feedbackHistory = <<>>
    /\ direction = InitialDirection
    /\ \E t \in Loops : pc[t] = "status"

\* C33: every step that lowers the number of entries of a filename in the
\* queued list is a poll thread's reconciliation of that filename, which the
\* engine reported as current and which moves to the play history; no other
\* step (fill cycle, drain, failed cycle, pause / play / next, stop) does.
C33_LeavesOnlyByReconciliation ==
    [][\A f \in Clips \cup {Unknown} :
          Count(queued', f) < Count(queued, f) =>
              \E t \in Loops :
                  /\ pc[t] = "mark"
                  /\ cur[t] = f
                  /\ pc'[t] = "top"
                  /\ Count(queued', f) = Count(queued, f) - 1
                  /\ recentlyPlayed' = mark_played(recentlyPlayed, f)]_vars

\* C33 witness: after a reconciliation and a stop() that has returned, a
\* filename the engine did not report is still queued.
C33_Witness ==
    /\ clipsPlayed >= 1
    /\ queued # <<>>
    /\ ~running
    /\ pc[Caller] = "idle"
    /\ \A t \in Loops : ~Alive(t)

\* The motion_intensity values C34 places in each bucket: a value goes by its
\* lower-cased form, and every value other than low, medium and high is
\* counted as medium.
MotionsIn(bucket) ==
    CASE bucket = "low" -> {"low"}
      [] bucket = "medium" -> {"medium", "frantic"}
      [] bucket = "high" -> {"HIGH"}

\* The clips whose motion_intensity C34 places in the bucket.
InBucket(bucket) == {c \in AllClips : c[1] \in MotionsIn(bucket)}

\* C34: of each of the three buckets, filled as C34 says, the sample holds
\* at least min(floor(n/3), size of the bucket) clips, so a bucket with fewer
\* clips than floor(n/3) is in the sample whole.
C34_BucketFloor ==
    phase = "returned" =>
        \A i \in DOMAIN Buckets :
            LET bucket == InBucket(Buckets[i]) \cap ClipsOf(pool)
            IN  /\ Total(picked, bucket)
                     >= Min(sampleCap \div 3, Cardinality(bucket))
                /\ Cardinality(bucket) < sampleCap \div 3
                     => \A c \in bucket : picked[c] = 1

\* C34 witness: a sample of 6 from a pool with one low clip, upper-case HIGH
\* clips and clips of an unlisted intensity; the low clip is in the sample.
C34_Witness ==
    /\ phase = "returned"
    /\ sampleCap = 6
    /\ pool["low"] = 1
    /\ pool["HIGH"] >= 1
    /\ pool["frantic"] >= 1
    /\ picked[<<"low", 1>>] = 1

\* C35: the candidate list select() hands to the prompt has at most as many
\* entries as the limit, and every entry is a clip of the manifest, listed
\* once, whose name is not in the exclusion list.
C35_CandidatesBoundedAndEligible ==
    phase = "prompted" =>
        /\ Size(picked) <= sampleCap
        /\ \A c \in AllClips :
               picked[c] > 0 =>
                   /\ picked[c] = 1
                   /\ c \in ClipsOf(pool)
                   /\ c \notin excludedNames

\* C35 witness: more clips than the limit are available, some clips of the
\* manifest are excluded, and the list has as many entries as the limit.
C35_Witness ==
    /\ phase = "prompted"
    /\ excludedNames \cap ClipsOf(pool) # {}
    /\ Cardinality(ClipsOf(pool) \ excludedNames) > sampleCap
    /\ Size(picked) = sampleCap

\* C36: a fill cycle adds no filename to the queued list that was in the
\* play history or in the queued list when the cycle began.
C36_NeverEnqueuesExcluded ==
    [][\A f \in Clips :
          Count(queued', f) > Count(queued, f) =>
              f \notin Range(recentlyPlayed) \cup Range(queued)]_vars

\* C37: a fill cycle adds at most clips_per_selection filenames to the
\* queued list.
C37_AtMostConfiguredPerCycle ==
    [][Len(queued') <= Len(queued) + clips_per_selection]_vars

\* A step of poll thread t.
LoopStepped(t) == pc'[t] # pc[t] \/ fb'[t] # fb[t] \/ sels'[t] # sels[t]

\* C38: once stop() has returned (running is False and the caller is past
\* the join), a step of a poll thread is neither the collaborator call nor an
\* IPC command, and changes neither the queued list nor the narrative state.
C38_NoLoopActionAfterStop ==
    [][(~running /\ pc[Caller] # "join") =>
          \A t \in Loops :
              LoopStepped(t) =>
                  /\ pc[t] \notin {"select", "enqueue", "status"}
                  /\ UNCHANGED <<queued, recentlyPlayed, feedbackHistory,
                                 moodTrajectory, direction>>]_vars

\* The engine processes spawned and not yet terminated.
Running == {p \in Procs : engine[p] \in {"starting", "listening"}}

\* C39: at most one spawned engine process is running, and none is running
\* after a start_mpv that returned False.
C39_NoEngineLeftBehind ==
    /\ Cardinality(Running) <= 1
    /\ ret = "start_failed" => Running = {}

\* Client k is the only thread that has called _send_command.
SingleCaller(k) == \A n \in 1..nCmds : sentBy[n] = k

\* C40: with a single caller, a _send_command that has returned has returned
\* neither an event nor the reply to an earlier command: a parsed result is
\* the reply to the command this call sent.
C40_OwnReplyDespiteEvents ==
    \A k \in Clients :
        (SingleCaller(k) /\ tpc[k] = "done") =>
            /\ result[k] # Event
            /\ result[k][1] = "reply" => result[k][2] = cmd[k]

====
